---- MODULE Spec2Model ----
(***************************************************************************)
(* A model of the lift-compiler front end: the recursive-descent parser    *)
(* (src/src/ast/parser.rs), the AST and its visitor (src/src/ast/mod.rs)   *)
(* and the tree-walking evaluator (src/src/ast/solver.rs).                 *)
(*                                                                         *)
(* The parser is modelled call by call: every parse_* method is an         *)
(* operator from the parser's state to the node it returns and the state   *)
(* it leaves.  A Rust panic (unwrap on None) is the parser status "panic". *)
(* A while loop of the parser whose iteration leaves the current-token     *)
(* index where it was repeats that iteration forever, because the loop's   *)
(* behaviour depends on the cursor only through peek(-1), peek(0) and      *)
(* peek(1), which is the status "hang".                                     *)
(***************************************************************************)
EXTENDS Integers, Sequences, FiniteSets, TLC

VARIABLES
    parser,     \* struct Parser: tokens, cursor, diagnostics; and the status of its call
    returned,   \* what the last next_statement call returned
    ast,        \* Ast::statements
    driver,     \* where the driver of the pipeline is: "parse", "visit" or "done"
    solver,     \* struct ASTSolver: result, scopes, functions
    stack,      \* the evaluator's call stack: one frame per visit_* call in progress
    status      \* "ok", or "panic" once an unwrap() or todo!() of the evaluator fired

\* ------------------------------------------------------------------ bounds

\* The longest token sequence (the closing Eof included) given to the parser.
MaxTokens == 4

\* ------------------------------------------------------------------ tokens

\* A token: its kind, the payload of Integer(i) / Floating(f), and its literal.
Token(kind) == [kind |-> kind, value |-> 0, literal |-> ""]

IntegerToken(i) == [kind |-> "Integer", value |-> i, literal |-> ""]

IdentifierToken(name) == [kind |-> "Identifier", value |-> 0, literal |-> name]

Eof == Token("Eof")

Min(a, b) == IF a < b THEN a ELSE b

\* Option<T>: None is the empty sequence, Some(x) is <<x>>.
None == <<>>

Some(x) == <<x>>

\* ------------------------------------------------------------------ parser state

\* Parser::new / from_input: the filtered tokens, the cursor at 0, the shared
\* diagnostics collection (empty), and the control status of the call in progress.
NewParser(tokens) ==
    [tokens |-> tokens, cursor |-> 0, diagnostics |-> <<>>, status |-> "ok"]

\* peek: index = min((cursor + offset) as usize, len - 1); a negative sum wraps
\* to a huge usize, so min() picks len - 1.
Peek(p, offset) ==
    LET sum == p.cursor + offset
        index == IF sum < 0 THEN Len(p.tokens) - 1
                 ELSE Min(sum, Len(p.tokens) - 1)
    IN p.tokens[index + 1]

current_token(p) == Peek(p, 0)

\* Cursor::move_forward, the state change of consume(); the token consume()
\* returns is Peek(Consume(p), -1).
Consume(p) == [p EXCEPT !.cursor = @ + 1]

\* DiagnosticsColletion::report_unexpected_token(expected, token)
ReportUnexpectedToken(p, expected, token) ==
    [p EXCEPT !.diagnostics =
        Append(@, [report |-> "unexpected_token", expected |-> expected, token |-> token])]

\* DiagnosticsColletion::report_expected_expression(token)
ReportExpectedExpression(p, token) ==
    [p EXCEPT !.diagnostics =
        Append(@, [report |-> "expected_expression", expected |-> "Expression", token |-> token])]

ConsumeUnchecked(p, expected) == Consume(p)

ConsumeExpected(p, expected) ==
    LET q == Consume(p)
        token == Peek(q, -1)
    IN IF token.kind # expected THEN ReportUnexpectedToken(q, expected, token) ELSE q

\* The index peek(0) reads: what a loop iteration has to change to end.
CurrentIndex(p) == Min(p.cursor, Len(p.tokens) - 1)

\* A loop iteration from p to q that left the current token where it was.
NoProgress(p, q) == CurrentIndex(q) = CurrentIndex(p)

Hang(p) == [p EXCEPT !.status = "hang"]

Panic(p) == [p EXCEPT !.status = "panic"]

Ok(p) == p.status = "ok"

\* ------------------------------------------------------------------ AST constructors

ErrorExpression(token) == [kind |-> "Error", span |-> token]

IntegerExpression(i) == [kind |-> "IntegerLiteral", value |-> i]

FloatExpression(f) == [kind |-> "FloatingLiteral", value |-> f]

VariableExpression(token) == [kind |-> "Variable", identifier |-> token]

BinaryExpression(operator, left, right) ==
    [kind |-> "Binary", operator |-> operator, left |-> left, right |-> right]

UnaryExpression(operator, expr) == [kind |-> "Unary", operator |-> operator, expr |-> expr]

ParenthesizedExpression(expr) == [kind |-> "Parenthesized", expr |-> expr]

FunctionCallExpression(identifier, arguments) ==
    [kind |-> "FunctionCall", identifier |-> identifier, arguments |-> arguments]

AssignmentExpression(identifier, expr) ==
    [kind |-> "Assignment", identifier |-> identifier, expr |-> expr]

ExpressionStatement(expr) == [kind |-> "Expression", expr |-> expr]

ReturnStatement(expr) == [kind |-> "ReturnStatement", expr |-> expr]

LetStatement(identifier, initializer) ==
    [kind |-> "LetStatement", identifier |-> identifier, initializer |-> initializer]

FunctionStatement(identifier, arguments, body) ==
    [kind |-> "FunctionStatement", identifier |-> identifier,
     arguments |-> arguments, body |-> body]

ConditionalStatement(keyword, condition, then_branch, else_branch) ==
    [kind |-> "Conditional", keyword |-> keyword, condition |-> condition,
     then_branch |-> then_branch, else_branch |-> else_branch]

CompoundStatement(statements) == [kind |-> "Compound", statements |-> statements]

\* ------------------------------------------------------------------ operators

\* ASTBinaryOperator::precedence
PrecedenceFlat(kind) == 1

Precedence(kind) ==
    CASE kind = "Plus" -> 1
      [] kind = "Minus" -> 1
      [] kind = "Multiply" -> 2
      [] kind = "Divide" -> 2

\* parse_binary_operator: the operator the current token denotes, not consumed.
\* Only the four kinds ASTBinaryOperatorKind declares (and precedence() ranks)
\* are modelled; the bitwise, comparison and logic tokens are left out of the
\* token alphabet.
ParseBinaryOperator(p) ==
    LET token == current_token(p)
        kind == CASE token.kind = "Plus" -> Some("Plus")
                  [] token.kind = "Minus" -> Some("Minus")
                  [] token.kind = "Astrisk" -> Some("Multiply")
                  [] token.kind = "Slash" -> Some("Divide")
                  [] OTHER -> None
    IN IF kind = None THEN None ELSE Some([kind |-> kind[1], token |-> token])

\* parse_unary_operator: the operator the current token denotes, not consumed.
ParseUnaryOperator(p) ==
    LET token == current_token(p)
        kind == CASE token.kind = "Tilde" -> Some("BitwiseNOT")
                  [] token.kind = "ExclemationMark" -> Some("LogicNot")
                  [] token.kind = "Minus" -> Some("Minus")
                  [] OTHER -> None
    IN IF kind = None THEN None ELSE Some([kind |-> kind[1], token |-> token])

\* The comparison of parse_binary_expression's loop: fold only an operator that
\* binds strictly tighter than the floor.
ClimbsOrEqual(operator_precedence, precedence) == operator_precedence >= precedence

Climbs(operator_precedence, precedence) == operator_precedence > precedence

\* ------------------------------------------------------------------ the parse_* methods

\* Every method is an operator from the parser p it is called with to
\* [node, p]: the node it returns and the parser it leaves.  A method that
\* goes on after a nested call is split there: the part after the call is an
\* operator of its own that takes the nested call's result.  Once p.status is
\* not "ok" the call in progress is over (a panic unwinds, a hang never
\* returns): every method then returns at once.
Result(node, p) == [node |-> node, p |-> p]

Aborted(p) == Result(ErrorExpression(Eof), p)

RECURSIVE ParseStatement(_)
RECURSIVE ParseCompoundStatement(_)
RECURSIVE CompoundLoop(_, _)
RECURSIVE ParseFunctionStatement(_)
RECURSIVE ParseConditionalStatement(_)
RECURSIVE ConsumeOptionalElseStatement(_)
RECURSIVE ParseExpression(_)
RECURSIVE ParseArgumentsList(_)
RECURSIVE ArgumentsLoop(_, _)
RECURSIVE ParseFunctionCallExpression(_)
RECURSIVE ParsePrimaryExpression(_)
RECURSIVE ParseUnaryExpression(_)
RECURSIVE ParseBinaryExpression(_, _)
RECURSIVE BinaryLoop(_, _, _)
RECURSIVE ParameterLoop(_, _)

\* parse_return_statement
ReturnOf(expr) == Result(ReturnStatement(expr.node), expr.p)

ParseReturnStatement(p) == ReturnOf(ParseExpression(ConsumeExpected(p, "Return")))

\* parse_let_statement
LetOf(identifier, expr) == Result(LetStatement(identifier, expr.node), expr.p)

LetNamed(p) == LetOf(Peek(p, -1), ParseExpression(ConsumeExpected(p, "Equal")))

ParseLetStatement(p) == LetNamed(ConsumeExpected(ConsumeExpected(p, "Let"), "Identifier"))

\* parse_compound_statement: the while loop.  An iteration that parsed a
\* statement and left the current token where it was repeats forever.
CompoundPush(p, statements, statement) ==
    IF Ok(statement.p) /\ NoProgress(p, statement.p)
    THEN [statements |-> statements, p |-> Hang(statement.p)]
    ELSE CompoundLoop(statement.p, Append(statements, statement.node))

CompoundLoop(p, statements) ==
    IF ~Ok(p) \/ current_token(p).kind = "RightBrace"
    THEN [statements |-> statements, p |-> p]
    ELSE CompoundPush(p, statements, ParseStatement(p))

CompoundOf(loop) ==
    IF ~Ok(loop.p) THEN Aborted(loop.p)
    ELSE Result(CompoundStatement(loop.statements), ConsumeExpected(loop.p, "RightBrace"))

ParseCompoundStatement(p) ==
    IF ~Ok(p) THEN Aborted(p)
    ELSE CompoundOf(CompoundLoop(ConsumeExpected(p, "LeftBrace"), <<>>))

\* parse_function_statement: a comma right after the opening parenthesis.
LeadingParameterComma(p) ==
    IF current_token(p).kind = "Comma"
    THEN Consume(ReportUnexpectedToken(p, "Identifier", Peek(p, 1)))
    ELSE p

\* The while loop's first if: a comma where a parameter is expected.
StrayParameterComma(p) ==
    IF current_token(p).kind = "Comma"
    THEN Consume(ReportUnexpectedToken(p, "Identifier", current_token(p)))
    ELSE p

\* The second if: an identifier is consumed and pushed; any other token is
\* reported and left where it is.
ParameterToken(p) ==
    IF current_token(p).kind = "Identifier" THEN Consume(p)
    ELSE ReportUnexpectedToken(p, "Identifier", current_token(p))

ParameterPushed(p, arguments) ==
    IF current_token(p).kind = "Identifier"
    THEN Append(arguments, [identifier |-> current_token(p)])
    ELSE arguments

\* The third if: a trailing comma ends the loop, any other comma is consumed.
\* `p` is the parser at the start of the iteration, `q` after its second if.
ParameterSeparator(p, q, arguments) ==
    IF current_token(q).kind = "Comma" /\ Peek(q, 1).kind = "RightParen"
    THEN [arguments |-> arguments, p |-> ConsumeExpected(q, "RightParen")]
    ELSE IF current_token(q).kind = "Comma"
    THEN ParameterLoop(Consume(q), arguments)
    ELSE IF NoProgress(p, q)
    THEN [arguments |-> arguments, p |-> Hang(q)]
    ELSE ParameterLoop(q, arguments)

ParameterIteration(p, afterComma, arguments) ==
    ParameterSeparator(p, ParameterToken(afterComma), ParameterPushed(afterComma, arguments))

ParameterLoop(p, arguments) ==
    IF ~Ok(p) \/ current_token(p).kind = "RightParen"
    THEN [arguments |-> arguments, p |-> p]
    ELSE ParameterIteration(p, StrayParameterComma(p), arguments)

FunctionOf(identifier, arguments, body) ==
    Result(FunctionStatement(identifier, arguments, body.node), body.p)

FunctionBody(identifier, loop) ==
    IF ~Ok(loop.p) THEN Aborted(loop.p)
    ELSE FunctionOf(identifier, loop.arguments,
                    ParseCompoundStatement(ConsumeExpected(loop.p, "RightParen")))

FunctionNamed(p) ==
    FunctionBody(Peek(p, -1),
                 ParameterLoop(LeadingParameterComma(ConsumeExpected(p, "LeftParen")), <<>>))

ParseFunctionStatement(p) ==
    FunctionNamed(ConsumeExpected(ConsumeExpected(p, "Func"), "Identifier"))

\* consume_optional_else_statement: Option<ASTElseStatement>
ElseOf(else_keyword, statement) ==
    Result(Some([else_keyword |-> else_keyword, else_branch |-> statement.node]), statement.p)

ElseBranch(p) == ElseOf(Peek(p, -1), ParseStatement(p))

ConsumeOptionalElseStatement(p) ==
    IF ~Ok(p) \/ current_token(p).kind # "Else" THEN Result(None, p)
    ELSE ElseBranch(ConsumeExpected(p, "Else"))

\* parse_conditional_statement
ConditionalOf(keyword, condition, then_branch, else_branch) ==
    Result(ConditionalStatement(keyword, condition, then_branch, else_branch.node),
           else_branch.p)

ConditionalElse(keyword, condition, then_branch) ==
    ConditionalOf(keyword, condition, then_branch.node,
                  ConsumeOptionalElseStatement(then_branch.p))

ConditionalThen(keyword, condition) ==
    IF ~Ok(condition.p) THEN Aborted(condition.p)
    ELSE ConditionalElse(keyword, condition.node,
                         ParseStatement(ConsumeExpected(condition.p, "RightParen")))

ConditionalCondition(p) ==
    ConditionalThen(Peek(p, -1), ParseExpression(ConsumeExpected(p, "LeftParen")))

ParseConditionalStatement(p) == ConditionalCondition(ConsumeExpected(p, "If"))

\* parse_expression_statement
ExpressionStatementOf(expr) == Result(ExpressionStatement(expr.node), expr.p)

ParseExpressionStatement(p) == ExpressionStatementOf(ParseExpression(p))

\* parse_statement
ParseStatement(p) ==
    IF ~Ok(p) THEN Aborted(p)
    ELSE CASE current_token(p).kind = "Let" -> ParseLetStatement(p)
           [] current_token(p).kind = "Return" -> ParseReturnStatement(p)
           [] current_token(p).kind = "Func" -> ParseFunctionStatement(p)
           [] current_token(p).kind = "If" -> ParseConditionalStatement(p)
           [] current_token(p).kind = "LeftBrace" -> ParseCompoundStatement(p)
           [] OTHER -> ParseExpressionStatement(p)

\* parse_assignment_expression
AssignmentOf(var, assignment) ==
    Result(AssignmentExpression(var, assignment.node), assignment.p)

\* What parse_assignment_expression parses after an `identifier =`, and what
\* it parses otherwise: a binary expression from the precedence floor 0.
AssignmentValue(p, var, isAssignment) ==
    IF isAssignment
    THEN AssignmentOf(var, ParseBinaryExpression(ConsumeExpected(Consume(p), "Equal"), 0))
    ELSE ParseBinaryExpression(p, 0)

ParseAssignmentExpression(p) ==
    AssignmentValue(p, current_token(p),
                    current_token(p).kind = "Identifier" /\ Peek(p, 1).kind = "Equal")

\* parse_expression
ParseExpression(p) == IF ~Ok(p) THEN Aborted(p) ELSE ParseAssignmentExpression(p)

\* parse_arguments_list: the while loop.  `p` is the parser at the start of the
\* iteration, `expr` the argument it parsed.
ArgumentSeparator(p, q, arguments) ==
    IF ~Ok(q) THEN [arguments |-> arguments, p |-> q]
    ELSE IF current_token(q).kind = "Comma" /\ Peek(q, 1).kind = "RightParen"
    THEN [arguments |-> arguments, p |-> ConsumeExpected(q, "RightParen")]
    ELSE IF current_token(q).kind = "Comma"
    THEN ArgumentsLoop(Consume(q), arguments)
    ELSE IF NoProgress(p, q)
    THEN [arguments |-> arguments, p |-> Hang(q)]
    ELSE ArgumentsLoop(q, arguments)

ArgumentPush(p, arguments, expr) ==
    ArgumentSeparator(p, expr.p, Append(arguments, expr.node))

StrayArgumentComma(p) ==
    IF current_token(p).kind = "Comma"
    THEN Consume(ReportUnexpectedToken(p, "Identifier", current_token(p)))
    ELSE p

ArgumentsLoop(p, arguments) ==
    IF ~Ok(p) \/ current_token(p).kind = "RightParen"
    THEN [arguments |-> arguments, p |-> p]
    ELSE ArgumentPush(p, arguments, ParseExpression(StrayArgumentComma(p)))

LeadingArgumentComma(p) ==
    IF current_token(p).kind = "Comma"
    THEN Consume(ReportUnexpectedToken(p, "Identifier", Peek(p, 1)))
    ELSE p

ParseArgumentsList(p) == ArgumentsLoop(LeadingArgumentComma(p), <<>>)

\* parse_function_call_expression
FunctionCallOf(identifier, loop) ==
    IF ~Ok(loop.p) THEN Aborted(loop.p)
    ELSE Result(FunctionCallExpression(identifier, loop.arguments),
                ConsumeExpected(loop.p, "RightParen"))

ParseFunctionCallExpression(p) ==
    FunctionCallOf(Peek(p, -1), ParseArgumentsList(Consume(p)))

\* parse_unary_expression: parse_unary_operator().unwrap() reads the current
\* token, which is the token after the one parse_primary_expression consumed.
UnaryOf(operator, expr) == Result(UnaryExpression(operator, expr.node), expr.p)

UnaryOperand(p, operator) ==
    IF operator = None THEN Aborted(Panic(p))
    ELSE UnaryOf(operator[1], ParsePrimaryExpression(p))

ParseUnaryExpression(p) == UnaryOperand(p, ParseUnaryOperator(p))

\* parse_primary_expression
ParenthesizedOf(expr) ==
    IF ~Ok(expr.p) THEN Aborted(expr.p)
    ELSE Result(ParenthesizedExpression(expr.node), ConsumeExpected(expr.p, "RightParen"))

\* The match on the consumed token; p is the parser after consume().
PrimaryOf(p, token) ==
    CASE token.kind = "Integer" -> Result(IntegerExpression(token.value), p)
      [] token.kind = "Floating" -> Result(FloatExpression(token.value), p)
      [] token.kind = "Identifier" ->
            IF current_token(p).kind = "LeftParen"
            THEN ParseFunctionCallExpression(p)
            ELSE Result(VariableExpression(token), p)
      [] token.kind = "LeftParen" -> ParenthesizedOf(ParseBinaryExpression(p, 0))
      [] token.kind \in {"Tilde", "Minus", "ExclemationMark"} -> ParseUnaryExpression(p)
      [] OTHER -> Result(ErrorExpression(token), ReportExpectedExpression(p, token))

PrimaryConsumed(p) == PrimaryOf(p, Peek(p, -1))

ParsePrimaryExpression(p) == IF ~Ok(p) THEN Aborted(p) ELSE PrimaryConsumed(Consume(p))

\* parse_binary_expression: the while loop.
BinaryFold(precedence, operator, left, right) ==
    BinaryLoop(right.p, precedence, BinaryExpression(operator, left, right.node))

BinaryClimb(p, precedence, left, operator) ==
    IF operator = None THEN Result(left, p)
    ELSE IF Climbs(Precedence(operator[1].kind), precedence)
    THEN BinaryFold(precedence, operator[1], left,
                    ParseBinaryExpression(Consume(p), Precedence(operator[1].kind)))
    ELSE Result(left, p)

BinaryLoop(p, precedence, left) ==
    IF ~Ok(p) THEN Result(left, p)
    ELSE BinaryClimb(p, precedence, left, ParseBinaryOperator(p))

BinaryLeftOperand(precedence, left) == BinaryLoop(left.p, precedence, left.node)

ParseBinaryExpression(p, precedence) ==
    BinaryLeftOperand(precedence, ParsePrimaryExpression(p))

\* next_statement: None at Eof, otherwise Some(parse_statement()).  Of a call
\* that panics or hangs nothing is returned.
SomeStatement(statement) ==
    IF Ok(statement.p) THEN Result(Some(statement.node), statement.p)
    ELSE Result(None, statement.p)

NextStatementResult(p) ==
    IF current_token(p).kind = "Eof" THEN Result(None, p)
    ELSE SomeStatement(ParseStatement(p))

\* ------------------------------------------------------------------ inputs

TokenKinds ==
    {"Let", "Return", "Func", "If", "Else", "LeftBrace", "RightBrace",
     "LeftParen", "RightParen", "Comma", "Equal", "Plus", "Minus",
     "Astrisk", "Slash", "Tilde", "ExclemationMark", "Bad"}

Alphabet ==
    {Token(k) : k \in TokenKinds} \cup {IntegerToken(1), IdentifierToken("f")}

\* Every token sequence of n tokens of the alphabet.
RECURSIVE TokenSequences(_)
TokenSequences(n) ==
    IF n = 0 THEN {<<>>}
    ELSE {Append(s, t) : s \in TokenSequences(n - 1), t \in Alphabet}

\* What the lexer hands over: tokens of the alphabet closed by one Eof.
ParserInputs(longest) ==
    UNION {{Append(s, Eof) : s \in TokenSequences(n)} : n \in 0..(longest - 1)}


\* ------------------------------------------------------------------ f64 values

\* An f64 is modelled exactly on the dyadic rationals n / Scale with
\* |n / Scale| <= MaxValue: the model holds n.  On these values the IEEE
\* operations are exact whenever their result is again such a value; a step
\* whose result is not (an inexact quotient, a division by zero, a value out of
\* range) is outside the model and is not taken.
FractionBits == 2

MaxValue == 30

Scale == 2 ^ FractionBits

\* `integer as f64`
F64FromInteger(i) == i * Scale

Abs(n) == IF n < 0 THEN -n ELSE n

Representable(n) == Abs(n) <= MaxValue * Scale

\* numerator / denominator when it is an integer: Some(quotient), else None.
ExactQuotient(numerator, denominator) ==
    IF denominator = 0 \/ Abs(numerator) % Abs(denominator) # 0 THEN None
    ELSE IF (numerator < 0) = (denominator < 0)
    THEN Some(Abs(numerator) \div Abs(denominator))
    ELSE Some(-(Abs(numerator) \div Abs(denominator)))

\* left (+ - * /) right of visit_binary_expression: Some(value), or None when
\* the result is outside the modelled values.
BinaryValue(kind, left, right) ==
    CASE kind = "Plus" -> Some(left + right)
      [] kind = "Minus" -> Some(left - right)
      [] kind = "Multiply" -> ExactQuotient(left * right, Scale)
      [] kind = "Divide" -> ExactQuotient(left * Scale, right)

InRange(value) == value # None /\ Representable(value[1])

\* ------------------------------------------------------------------ the solver

\* HashMap::new()
EmptyMap == [name \in {} |-> 0]

InsertAlone(map, key, value) == [name \in {key} |-> value]

\* HashMap::insert
Insert(map, key, value) ==
    [name \in (DOMAIN map) \cup {key} |-> IF name = key THEN value ELSE map[name]]

\* ASTSolver::new
NewSolver == [result |-> None, scopes |-> <<EmptyMap>>, functions |-> EmptyMap]

EnterScope(s, scope_variables) == [s EXCEPT !.scopes = Append(@, scope_variables)]

LeaveScopeNot(s) == s

LeaveScopeDroppingFunctions(s) ==
    [s EXCEPT !.scopes = SubSeq(@, 1, Len(@) - 1),
              !.functions = [name \in DOMAIN @ \ DOMAIN s.scopes[Len(s.scopes)] |-> @[name]]]

LeaveScope(s) == [s EXCEPT !.scopes = SubSeq(@, 1, Len(@) - 1)]

\* add_identifier_to_scope: insert into scopes.last_mut()
AddIdentifierToOutermostScope(s, identifier, value) ==
    [s EXCEPT !.scopes[1] = Insert(@, identifier, value)]

AddIdentifierToScope(s, identifier, value) ==
    [s EXCEPT !.scopes[Len(s.scopes)] = Insert(@, identifier, value)]

\* get_identifier_in_scope: the first scope, from the last to the first, that
\* holds the identifier.
RECURSIVE LookupFrom(_, _, _)
LookupFrom(scopes, n, identifier) ==
    IF n = 0 THEN None
    ELSE IF identifier \in DOMAIN scopes[n] THEN Some(scopes[n][identifier])
    ELSE LookupFrom(scopes, n - 1, identifier)

RECURSIVE LookupUpFrom(_, _, _)
LookupUpFrom(scopes, n, identifier) ==
    IF n > Len(scopes) THEN None
    ELSE IF identifier \in DOMAIN scopes[n] THEN Some(scopes[n][identifier])
    ELSE LookupUpFrom(scopes, n + 1, identifier)

GetIdentifierOutermostFirst(s, identifier) == LookupUpFrom(s.scopes, 1, identifier)

GetIdentifierInScope(s, identifier) == LookupFrom(s.scopes, Len(s.scopes), identifier)

\* ------------------------------------------------------------------ the call stack

\* The evaluator is modelled step by step: a frame is a call in progress of the
\* method it names, and the last frame is the one that runs.
Top == stack[Len(stack)]

Rest == SubSeq(stack, 1, Len(stack) - 1)

\* Ast::visit about to visit statement `index`.
AstVisitFrame(index) == [frame |-> "Ast::visit", index |-> index]

\* visit_statement(statement) about to dispatch.
StatementFrame(statement) == [frame |-> "visit_statement", statement |-> statement]

\* visit_expression(expr) about to dispatch.
ExpressionFrame(expr) == [frame |-> "visit_expression", expr |-> expr]

\* visit_let_statement waiting for its initializer.
LetFrame(statement) == [frame |-> "visit_let_statement", statement |-> statement]

\* visit_binary_expression waiting for its left operand.
BinaryLeftFrame(expr) == [frame |-> "visit_binary_expression:left", expr |-> expr]

\* visit_binary_expression waiting for its right operand, the left value captured.
BinaryRightFrame(expr, left) ==
    [frame |-> "visit_binary_expression:right", expr |-> expr, left |-> left]

\* visit_function_call_expression waiting for argument `index`; `arguments` is
\* the Scope built so far.  `entry` is a history field: the scope stack as it
\* was when the call began.
ArgumentsFrame(expr, func, index, arguments, entry) ==
    [frame |-> "visit_function_call_expression:arguments", expr |-> expr, func |-> func,
     index |-> index, arguments |-> arguments, entry |-> entry]

\* visit_function_call_expression about to visit statement `index` of the body.
BodyFrame(expr, func, index, entry) ==
    [frame |-> "visit_function_call_expression:body", expr |-> expr, func |-> func,
     index |-> index, entry |-> entry]

Running == status = "ok" /\ stack # <<>>

At(frame) == Running /\ Top.frame = frame

AtExpression(kind) == At("visit_expression") /\ Top.expr.kind = kind

AtStatement(kind) == At("visit_statement") /\ Top.statement.kind = kind

\* The deepest call stack the model follows.
MaxStack == 12

\* ------------------------------------------------------------------ evaluator steps

parserVars == <<parser, returned>>

\* Ast::visit: the for loop over the statements.
AstVisit ==
    /\ At("Ast::visit")
    /\ IF Top.index <= Len(ast)
       THEN /\ stack' = Rest \o <<AstVisitFrame(Top.index + 1), StatementFrame(ast[Top.index])>>
            /\ UNCHANGED driver
       ELSE /\ stack' = Rest
            /\ driver' = IF driver = "visit" THEN "done" ELSE driver
    /\ UNCHANGED <<parserVars, ast, solver, status>>

\* do_visit_statement, Expression(expr): visit_expression(expr)
VisitExpressionStatement ==
    /\ AtStatement("Expression")
    /\ stack' = Rest \o <<ExpressionFrame(Top.statement.expr)>>
    /\ UNCHANGED <<parserVars, ast, driver, solver, status>>

\* visit_return_statement: visit_expression(statement.expr), and nothing else.
VisitReturnStatement ==
    /\ AtStatement("ReturnStatement")
    /\ stack' = Rest \o <<ExpressionFrame(Top.statement.expr)>>
    /\ UNCHANGED <<parserVars, ast, driver, solver, status>>

\* visit_let_statement, first line: visit the initializer.
VisitLetStatement ==
    /\ AtStatement("LetStatement")
    /\ stack' = Rest \o <<LetFrame(Top.statement), ExpressionFrame(Top.statement.initializer)>>
    /\ UNCHANGED <<parserVars, ast, driver, solver, status>>

\* visit_let_statement, second line: bind result.unwrap() in the last scope.
LetBind ==
    /\ At("visit_let_statement")
    /\ IF solver.result = None
       THEN /\ status' = "panic"
            /\ UNCHANGED <<solver, stack>>
       ELSE /\ solver' = AddIdentifierToScope(solver, Top.statement.identifier.literal,
                                              solver.result[1])
            /\ stack' = Rest
            /\ UNCHANGED status
    /\ UNCHANGED <<parserVars, ast, driver>>

\* visit_funtion_statement: functions.insert(name, function), then bind name to 0.0.
VisitFunctionStatement ==
    /\ AtStatement("FunctionStatement")
    /\ LET name == Top.statement.identifier.literal
           declared == [solver EXCEPT !.functions = Insert(@, name, Top.statement)]
       IN solver' = AddIdentifierToScope(declared, name, 0)
    /\ stack' = Rest
    /\ UNCHANGED <<parserVars, ast, driver, status>>

VisitInteger ==
    /\ AtExpression("IntegerLiteral")
    /\ solver' = [solver EXCEPT !.result = Some(F64FromInteger(Top.expr.value))]
    /\ stack' = Rest
    /\ UNCHANGED <<parserVars, ast, driver, status>>

VisitFloat ==
    /\ AtExpression("FloatingLiteral")
    /\ solver' = [solver EXCEPT !.result = Some(Top.expr.value)]
    /\ stack' = Rest
    /\ UNCHANGED <<parserVars, ast, driver, status>>

\* visit_variable_expression: result = get_identifier_in_scope(name)
VisitVariable ==
    /\ AtExpression("Variable")
    /\ solver' = [solver EXCEPT
                    !.result = GetIdentifierInScope(solver, Top.expr.identifier.literal)]
    /\ stack' = Rest
    /\ UNCHANGED <<parserVars, ast, driver, status>>

VisitParenthesised ==
    /\ AtExpression("Parenthesized")
    /\ stack' = Rest \o <<ExpressionFrame(Top.expr.expr)>>
    /\ UNCHANGED <<parserVars, ast, driver, solver, status>>

\* ASTVisitor::visit_error, the default the solver inherits: an empty body.
VisitError ==
    /\ AtExpression("Error")
    /\ stack' = Rest
    /\ UNCHANGED <<parserVars, ast, driver, solver, status>>

\* visit_binary_expression, first line: visit the left operand.
VisitBinary ==
    /\ AtExpression("Binary")
    /\ stack' = Rest \o <<BinaryLeftFrame(Top.expr), ExpressionFrame(Top.expr.left)>>
    /\ UNCHANGED <<parserVars, ast, driver, solver, status>>

\* let left = result.unwrap(); visit the right operand.
BinaryLeft ==
    /\ At("visit_binary_expression:left")
    /\ IF solver.result = None
       THEN /\ status' = "panic"
            /\ UNCHANGED stack
       ELSE /\ stack' = Rest \o <<BinaryRightFrame(Top.expr, solver.result[1]),
                                  ExpressionFrame(Top.expr.right)>>
            /\ UNCHANGED status
    /\ UNCHANGED <<parserVars, ast, driver, solver>>

\* let right = result.unwrap(); result = Some(left op right).
BinaryRight ==
    /\ At("visit_binary_expression:right")
    /\ IF solver.result = None
       THEN /\ status' = "panic"
            /\ UNCHANGED <<solver, stack>>
       ELSE LET value == BinaryValue(Top.expr.operator.kind, Top.left, solver.result[1])
            IN /\ InRange(value)
               /\ solver' = [solver EXCEPT !.result = value]
               /\ stack' = Rest
               /\ UNCHANGED status
    /\ UNCHANGED <<parserVars, ast, driver>>

\* The number of (argument, parameter) pairs of expr.arguments.iter().zip(func.arguments.iter()).
ZipLength(expr, func) == Min(Len(expr.arguments), Len(func.arguments))

\* enter_scope(arguments), and the body's for loop begins.
EnterBody(s, rest, expr, func, arguments, entry) ==
    /\ solver' = EnterScope(s, arguments)
    /\ stack' = rest \o <<BodyFrame(expr, func, 1, entry)>>

\* visit_function_call_expression up to the first argument: functions.get(name).unwrap().
VisitFunctionCall ==
    /\ AtExpression("FunctionCall")
    /\ Len(stack) < MaxStack
    /\ LET expr == Top.expr
           name == expr.identifier.literal
       IN IF name \notin DOMAIN solver.functions
          THEN /\ status' = "panic"
               /\ UNCHANGED <<solver, stack>>
          ELSE LET func == solver.functions[name]
               IN /\ IF ZipLength(expr, func) = 0
                     THEN EnterBody(solver, Rest, expr, func, EmptyMap, solver.scopes)
                     ELSE /\ stack' = Rest \o
                                <<ArgumentsFrame(expr, func, 1, EmptyMap, solver.scopes),
                                  ExpressionFrame(expr.arguments[1])>>
                          /\ UNCHANGED solver
                  /\ UNCHANGED status
    /\ UNCHANGED <<parserVars, ast, driver>>

\* The rest of one iteration of the zip loop: the parameter's name (todo!() unless
\* it is a Variable), arguments.insert(name, result.unwrap()); then the next
\* argument, or enter_scope after the last.
CallArgument ==
    /\ At("visit_function_call_expression:arguments")
    /\ LET expr == Top.expr
           func == Top.func
           func_arg == func.arguments[Top.index]
       IN IF func_arg.kind # "Variable" \/ solver.result = None
          THEN /\ status' = "panic"
               /\ UNCHANGED <<solver, stack>>
          ELSE LET arguments == Insert(Top.arguments, func_arg.identifier.literal,
                                       solver.result[1])
               IN /\ IF Top.index < ZipLength(expr, func)
                     THEN /\ stack' = Rest \o
                                <<ArgumentsFrame(expr, func, Top.index + 1, arguments, Top.entry),
                                  ExpressionFrame(expr.arguments[Top.index + 1])>>
                          /\ UNCHANGED solver
                     ELSE EnterBody(solver, Rest, expr, func, arguments, Top.entry)
                  /\ UNCHANGED status
    /\ UNCHANGED <<parserVars, ast, driver>>

\* for statement in func.body.iter() { visit_statement(statement) }; leave_scope().
CallBody ==
    /\ At("visit_function_call_expression:body")
    /\ IF Top.index <= Len(Top.func.body)
       THEN /\ stack' = Rest \o <<[Top EXCEPT !.index = @ + 1],
                                  StatementFrame(Top.func.body[Top.index])>>
            /\ UNCHANGED solver
       ELSE /\ solver' = LeaveScope(solver)
            /\ stack' = Rest
    /\ UNCHANGED <<parserVars, ast, driver, status>>

Evaluate ==
    \/ AstVisit
    \/ VisitExpressionStatement
    \/ VisitReturnStatement
    \/ VisitLetStatement
    \/ LetBind
    \/ VisitFunctionStatement
    \/ VisitInteger
    \/ VisitFloat
    \/ VisitVariable
    \/ VisitParenthesised
    \/ VisitError
    \/ VisitBinary
    \/ BinaryLeft
    \/ BinaryRight
    \/ VisitFunctionCall
    \/ CallArgument
    \/ CallBody

vars == <<parser, returned, ast, driver, solver, stack, status>>

\* ------------------------------------------------------------------ the parser's driver

NotCalled == [called |-> FALSE, value |-> None]

\* One call of next_statement by the driver's loop.  A statement is added to
\* the Ast (Ast::add_statement); None ends the loop and the Ast is visited
\* (Ast::visit); a call that panics or hangs ends the driver.
Returns(r) ==
    /\ parser' = r.p
    /\ returned' = [called |-> TRUE, value |-> r.node]
    /\ ast' = IF r.node = None THEN ast ELSE Append(ast, r.node[1])
    /\ driver' = IF ~Ok(r.p) THEN "aborted"
                 ELSE IF r.node = None THEN "visit" ELSE "parse"
    /\ stack' = IF Ok(r.p) /\ r.node = None THEN <<AstVisitFrame(1)>> ELSE stack

NextStatement ==
    /\ driver = "parse"
    /\ Returns(NextStatementResult(parser))
    /\ UNCHANGED <<solver, status>>

InitParser ==
    /\ parser \in {NewParser(tokens) : tokens \in ParserInputs(MaxTokens)}
    /\ returned = NotCalled
    /\ ast = <<>>
    /\ driver = "parse"
    /\ solver = NewSolver
    /\ stack = <<>>
    /\ status = "ok"

NextParser == NextStatement

\* The parser alone, on every token sequence of the alphabet.
SpecParser == InitParser /\ [][NextParser]_vars

\* ------------------------------------------------------------------ arithmetic inputs

\* The integer literals of the arithmetic inputs are 1..MaxLiteral.
MaxLiteral == 3

\* The longest arithmetic expression, in tokens.
MaxArithmeticTokens == 7

OperatorTokens == {Token("Plus"), Token("Minus"), Token("Astrisk"), Token("Slash")}

\* The syntactically valid arithmetic expressions of exactly n tokens: a literal,
\* a parenthesised expression, or two expressions joined by a binary operator.
RECURSIVE ArithmeticOfLength(_)
ArithmeticOfLength(n) ==
    IF n = 1 THEN {<<IntegerToken(i)>> : i \in 1..MaxLiteral}
    ELSE IF n < 1 \/ n % 2 = 0 THEN {}
    ELSE {<<Token("LeftParen")>> \o e \o <<Token("RightParen")>> : e \in ArithmeticOfLength(n - 2)}
         \cup UNION {{a \o <<op>> \o b : a \in ArithmeticOfLength(k),
                                        b \in ArithmeticOfLength(n - 1 - k),
                                        op \in OperatorTokens} : k \in 1..(n - 2)}

ArithmeticInputs(longest) ==
    UNION {{Append(e, Eof) : e \in ArithmeticOfLength(n)} : n \in 1..longest}

InitArithmetic ==
    /\ parser \in {NewParser(tokens) : tokens \in ArithmeticInputs(MaxArithmeticTokens)}
    /\ returned = NotCalled
    /\ ast = <<>>
    /\ driver = "parse"
    /\ solver = NewSolver
    /\ stack = <<>>
    /\ status = "ok"

NextArithmetic ==
    \/ NextStatement
    \/ AstVisit
    \/ VisitExpressionStatement
    \/ VisitInteger
    \/ VisitParenthesised
    \/ VisitBinary
    \/ BinaryLeft
    \/ BinaryRight

\* The pipeline on arithmetic source text: parse every statement, then evaluate.
SpecArithmetic == InitArithmetic /\ [][NextArithmetic]_vars

\* ------------------------------------------------------------------ evaluator inputs

Var(name) == VariableExpression(IdentifierToken(name))

Lit(i) == IntegerExpression(i)

Plus(left, right) == BinaryExpression([kind |-> "Plus", token |-> Token("Plus")], left, right)

Call(name, arguments) == FunctionCallExpression(IdentifierToken(name), arguments)

Let(name, initializer) == LetStatement(IdentifierToken(name), initializer)

\* A function declaration as ast/mod.rs holds it: the parameters are Variable
\* expressions, the body is the statements.
Func(name, parameters, body) ==
    FunctionStatement(IdentifierToken(name),
                      [i \in 1..Len(parameters) |-> Var(parameters[i])], body)

Return(expr) == ReturnStatement(expr)

Do(expr) == ExpressionStatement(expr)

Declarations ==
    { Func("f", <<"x">>, <<Return(Var("x"))>>),
      Func("g", <<>>, <<Return(Var("y"))>>),
      Func("f", <<"y">>, <<Return(Call("g", <<>>))>>),
      Func("h", <<"a">>, <<Let("x", Var("a")), Return(Var("x")), Do(Lit(2))>>),
      Func("outer", <<>>, <<Func("inner", <<>>, <<Return(Lit(3))>>),
                            Return(Call("inner", <<>>))>>) }

\* The statements the driver may hand to the evaluator, in any order.
StatementPool ==
    Declarations \cup
    { Let("x", Lit(1)),
      Let("y", Lit(2)),
      Let("x", Plus(Var("x"), Var("x"))),
      Let("y", Var("z")),
      Do(Var("x")),
      Do(Var("z")),
      Do(Var("f")),
      Do(Plus(Var("x"), Var("y"))),
      Do(ParenthesizedExpression(FloatExpression(6))),
      Do(Plus(Lit(1), ErrorExpression(Token("Bad")))),
      Do(Call("f", <<Lit(9)>>)),
      Do(Call("f", <<Lit(3)>>)),
      Do(Call("f", <<>>)),
      Do(Call("f", <<Lit(1), Lit(2)>>)),
      Do(Call("g", <<>>)),
      Do(Call("h", <<Lit(5)>>)),
      Do(Call("outer", <<>>)),
      Do(Call("inner", <<>>)) }

\* The driver hands one statement to the evaluator: an Ast of that statement
\* is visited.
Visit(statement) ==
    /\ driver = "repl"
    /\ status = "ok"
    /\ stack = <<>>
    /\ ast' = <<statement>>
    /\ stack' = <<AstVisitFrame(1)>>
    /\ UNCHANGED <<parserVars, driver, solver, status>>

Init ==
    /\ parser = NewParser(<<Eof>>)
    /\ returned = NotCalled
    /\ ast = <<>>
    /\ driver = "repl"
    /\ solver = NewSolver
    /\ stack = <<>>
    /\ status = "ok"

Next ==
    \/ \E statement \in StatementPool : Visit(statement)
    \/ Evaluate

\* The evaluator, fed statements one after another.
Spec == Init /\ [][Next]_vars

\* ------------------------------------------------------------------ C1

\* C1: parsing terminates on every finite token sequence that ends in Eof:
\* every call of next_statement returns, because no iteration of a parsing loop
\* leaves the current token where it was.
ParsingTerminates == parser.status # "hang"

\* ------------------------------------------------------------------ C2

\* C2: a call of next_statement returns None exactly when the current token is
\* Eof; in every other state it returns one statement and leaves the cursor
\* strictly greater than it was; and the cursor never decreases.
NextStatementContract ==
    [][driver = "parse" =>
          /\ parser'.cursor >= parser.cursor
          /\ IF current_token(parser).kind = "Eof"
             THEN Ok(parser') /\ returned'.value = None
             ELSE /\ Ok(parser')
                  /\ returned'.value # None
                  /\ parser'.cursor > parser.cursor]_vars

\* ------------------------------------------------------------------ C3

\* Standard operator-precedence arithmetic, read off the textbook grammar
\*     expression ::= term (('+' | '-') term)*
\*     term       ::= factor (('*' | '/') factor)*
\*     factor     ::= INTEGER | '(' expression ')'
\* and evaluated on the token sequence directly, left to right.
ReferenceApply(kind, left, right) ==
    IF left = None \/ right = None THEN None
    ELSE CASE kind = "Plus" -> Some(left[1] + right[1])
           [] kind = "Minus" -> Some(left[1] - right[1])
           [] kind = "Astrisk" -> ExactQuotient(left[1] * right[1], Scale)
           [] kind = "Slash" -> ExactQuotient(left[1] * Scale, right[1])

ReferenceInRange(value) == IF InRange(value) THEN value ELSE None

RECURSIVE ReferenceExpression(_, _)
RECURSIVE ReferenceExpressionTail(_, _)
RECURSIVE ReferenceTermTail(_, _)

ReferenceClose(inner) == [value |-> inner.value, next |-> inner.next + 1]

ReferenceFactor(tokens, i) ==
    IF tokens[i].kind = "Integer"
    THEN [value |-> Some(tokens[i].value * Scale), next |-> i + 1]
    ELSE ReferenceClose(ReferenceExpression(tokens, i + 1))

ReferenceTermFold(tokens, left, kind, right) ==
    ReferenceTermTail(tokens,
        [value |-> ReferenceInRange(ReferenceApply(kind, left.value, right.value)),
         next |-> right.next])

ReferenceTermTail(tokens, left) ==
    IF tokens[left.next].kind \in {"Astrisk", "Slash"}
    THEN ReferenceTermFold(tokens, left, tokens[left.next].kind,
                           ReferenceFactor(tokens, left.next + 1))
    ELSE left

ReferenceTerm(tokens, i) == ReferenceTermTail(tokens, ReferenceFactor(tokens, i))

ReferenceExpressionFold(tokens, left, kind, right) ==
    ReferenceExpressionTail(tokens,
        [value |-> ReferenceInRange(ReferenceApply(kind, left.value, right.value)),
         next |-> right.next])

ReferenceExpressionTail(tokens, left) ==
    IF tokens[left.next].kind \in {"Plus", "Minus"}
    THEN ReferenceExpressionFold(tokens, left, tokens[left.next].kind,
                                 ReferenceTerm(tokens, left.next + 1))
    ELSE left

ReferenceExpression(tokens, i) == ReferenceExpressionTail(tokens, ReferenceTerm(tokens, i))

ReferenceValue(tokens) == ReferenceExpression(tokens, 1).value

\* C3: for every valid arithmetic expression over integer literals, + - * /
\* and parentheses, the parser reports nothing, returns one statement, and the
\* evaluation of that statement ends with the value of standard
\* operator-precedence arithmetic.
ArithmeticMatchesReference ==
    /\ status = "ok"
    /\ Ok(parser)
    /\ driver \in {"visit", "done"} => Len(ast) = 1 /\ parser.diagnostics = <<>>
    /\ driver = "done" => solver.result = ReferenceValue(parser.tokens)

OnePlusTwoTimesThree ==
    <<IntegerToken(1), Token("Plus"), IntegerToken(2), Token("Astrisk"), IntegerToken(3), Eof>>

\* "1 + 2 * 3" was evaluated to 7.
ArithmeticWitness ==
    /\ parser.tokens = OnePlusTwoTimesThree
    /\ driver = "done"
    /\ solver.result = Some(7 * Scale)

\* ------------------------------------------------------------------ C4

SameLevel(kind1, kind2) ==
    \/ {kind1, kind2} \subseteq {"Plus", "Minus"}
    \/ {kind1, kind2} \subseteq {"Astrisk", "Slash"}

\* a op1 b op2 c, with op1 and op2 of the same precedence.
IsChain(tokens) ==
    /\ Len(tokens) = 6
    /\ tokens[1].kind = "Integer" /\ tokens[3].kind = "Integer" /\ tokens[5].kind = "Integer"
    /\ SameLevel(tokens[2].kind, tokens[4].kind)

OperatorOf(token) ==
    [kind |-> CASE token.kind = "Plus" -> "Plus"
                [] token.kind = "Minus" -> "Minus"
                [] token.kind = "Astrisk" -> "Multiply"
                [] token.kind = "Slash" -> "Divide",
     token |-> token]

LeftNested(tokens) ==
    BinaryExpression(OperatorOf(tokens[4]),
        BinaryExpression(OperatorOf(tokens[2]),
            IntegerExpression(tokens[1].value), IntegerExpression(tokens[3].value)),
        IntegerExpression(tokens[5].value))

LeftNestedValue(tokens) ==
    ReferenceApply(tokens[4].kind,
        ReferenceApply(tokens[2].kind, Some(tokens[1].value * Scale), Some(tokens[3].value * Scale)),
        Some(tokens[5].value * Scale))

\* C4: operators of equal precedence associate to the left: a op1 b op2 c is
\* parsed as Binary(op2, Binary(op1, a, b), c) and evaluates to (a op1 b) op2 c.
LeftAssociative ==
    IsChain(parser.tokens) =>
        /\ returned.called => ast = <<ExpressionStatement(LeftNested(parser.tokens))>>
        /\ driver = "done" => solver.result = LeftNestedValue(parser.tokens)

\* "3 - 2 - 1" was evaluated to 0 (and not to 2).
LeftAssociativeWitness ==
    /\ parser.tokens = <<IntegerToken(3), Token("Minus"), IntegerToken(2), Token("Minus"),
                         IntegerToken(1), Eof>>
    /\ driver = "done"
    /\ solver.result = Some(0)

\* ------------------------------------------------------------------ C5

UnaryTokens == {"Tilde", "Minus", "ExclemationMark"}

UnaryKindOf(token) ==
    CASE token.kind = "Tilde" -> "BitwiseNOT"
      [] token.kind = "ExclemationMark" -> "LogicNot"
      [] token.kind = "Minus" -> "Minus"

\* C5: a prefix unary operator is parsed, without a crash, into a Unary node
\* whose operator is the prefix token and whose operand is the primary
\* expression that follows it.
UnaryIsParsed ==
    /\ parser.status # "panic"
    /\ ( /\ returned.called
         /\ Len(parser.tokens) = 3
         /\ parser.tokens[1].kind \in UnaryTokens
         /\ parser.tokens[2].kind = "Integer" )
       => ast = <<ExpressionStatement(
                    UnaryExpression([kind |-> UnaryKindOf(parser.tokens[1]),
                                     token |-> parser.tokens[1]],
                                    IntegerExpression(parser.tokens[2].value)))>>

\* ------------------------------------------------------------------ C6

BodyFrames == {i \in DOMAIN stack : stack[i].frame = "visit_function_call_expression:body"}

\* C6: Return ends the traversal of the nearest enclosing function body: once a
\* call has executed a Return statement of its body, no later statement of that
\* body is started (the index of a call in progress is that of the next body
\* statement to visit, so it never passes the statement after a Return).
ReturnEndsBody ==
    \A i \in BodyFrames :
        \A j \in 1..Len(stack[i].func.body) :
            stack[i].func.body[j].kind = "ReturnStatement" => stack[i].index <= j + 1

\* ------------------------------------------------------------------ C7

\* C7: the scope stack holds one base scope after construction, and at every
\* point of evaluation its depth is 1 plus the number of function calls whose
\* body is in progress; so the depth after a completed call is the depth before.
ScopeDepth ==
    /\ Len(solver.scopes) = 1 + Cardinality(BodyFrames)
    /\ stack = <<>> => Len(solver.scopes) = 1

\* Two calls in progress, one inside the other, on three scopes.
NestedCallWitness ==
    /\ status = "ok"
    /\ Cardinality(BodyFrames) = 2
    /\ Len(solver.scopes) = 3

\* ------------------------------------------------------------------ C8

\* C8: a completed function call leaves every scope that existed when the call
\* began with exactly the bindings it had: the step that ends the call's body
\* leaves the scope stack equal to the one the call started from.
CallRestoresScopes ==
    [][(At("visit_function_call_expression:body") /\ Top.index > Len(Top.func.body))
          => solver'.scopes = Top.entry]_vars

\* After let x = 1; func f(x) { return x; } the statement f(9) has been
\* evaluated: it yielded 9 and x is 1.
ShadowingWitness ==
    /\ status = "ok"
    /\ ast = <<Do(Call("f", <<Lit(9)>>))>>
    /\ stack = <<AstVisitFrame(2)>>
    /\ "f" \in DOMAIN solver.functions
    /\ solver.functions["f"] = Func("f", <<"x">>, <<Return(Var("x"))>>)
    /\ solver.result = Some(9 * Scale)
    /\ Len(solver.scopes) = 1
    /\ "x" \in DOMAIN solver.scopes[1]
    /\ solver.scopes[1]["x"] = 1 * Scale

\* ------------------------------------------------------------------ C9

\* The binding of a name for the body of a function declared at the top level:
\* the call's own scope, else the base scope, in which the function was declared.
LexicalBinding(scopes, name) ==
    IF name \in DOMAIN scopes[Len(scopes)] THEN Some(scopes[Len(scopes)][name])
    ELSE IF name \in DOMAIN scopes[1] THEN Some(scopes[1][name])
    ELSE None

\* C9: lexical scoping: a variable reference inside the body of a function
\* resolves to the call's own parameters and locals or to the bindings of the
\* scope in which the function was declared, never to a binding that exists
\* only in the scope of a caller.
LexicalScoping ==
    (AtExpression("Variable") /\ BodyFrames # {}) =>
        LET innermost == CHOOSE i \in BodyFrames : \A k \in BodyFrames : k <= i
        IN stack[innermost].func \in Declarations =>
               GetIdentifierInScope(solver, Top.expr.identifier.literal)
                   = LexicalBinding(solver.scopes, Top.expr.identifier.literal)

\* ------------------------------------------------------------------ C10

\* The binding of a name in the scope of greatest depth that binds it.
InnermostBinding(scopes, name) ==
    LET bound == {k \in DOMAIN scopes : name \in DOMAIN scopes[k]}
    IN IF bound = {} THEN None
       ELSE Some(scopes[CHOOSE k \in bound : \A m \in bound : m <= k][name])

\* C10: reading a variable yields the innermost binding of the identifier; when
\* no scope binds it the read yields no value: not 0, and not the value an
\* earlier expression left in the accumulator.
VariableRead ==
    [][AtExpression("Variable") =>
          /\ solver'.result = InnermostBinding(solver.scopes, Top.expr.identifier.literal)
          /\ solver'.scopes = solver.scopes]_vars

\* The statement z has been evaluated after let x = 1 and an expression that
\* left a value: x is bound, z is not, and the read of z left no value.
UnboundReadWitness ==
    /\ status = "ok"
    /\ ast = <<Do(Var("z"))>>
    /\ stack = <<AstVisitFrame(2)>>
    /\ "x" \in DOMAIN solver.scopes[1]
    /\ "z" \notin DOMAIN solver.scopes[1]
    /\ solver.result = None

\* ------------------------------------------------------------------ C11

\* C11: evaluating an Error expression node produces no value: after the visit
\* the accumulator is unset or an evaluation fault is raised, so that no
\* enclosing expression can take a number for the value of the Error node.
ErrorYieldsNoValue ==
    [][AtExpression("Error") => (solver'.result = None \/ status' # "ok")]_vars

\* ------------------------------------------------------------------ C12

\* The driver's call in progress when it visits the tree a second time; `first`
\* is the result the first visit left.
RevisitFrame(first) == [frame |-> "revisit", first |-> first]

\* The driver visits again the Ast it has just visited, with the same solver.
Revisit ==
    /\ driver = "repl"
    /\ status = "ok"
    /\ stack = <<>>
    /\ ast # <<>>
    /\ stack' = <<RevisitFrame(solver.result), AstVisitFrame(1)>>
    /\ UNCHANGED <<parserVars, ast, driver, solver, status>>

\* The second visit has returned to the driver.
Revisited ==
    /\ At("revisit")
    /\ stack' = Rest
    /\ UNCHANGED <<parserVars, ast, driver, solver, status>>

NextRevisit == Next \/ Revisit \/ Revisited

\* The evaluator, fed statements one after another, each visited once or more.
SpecRevisit == Init /\ [][NextRevisit]_vars

\* C12: visiting the same tree twice in a row with the same evaluator yields
\* the same result both times.
RevisitSameResult == At("revisit") => solver.result = Top.first

\* ------------------------------------------------------------------ C13

\* The most arguments of a call.
MaxArguments == 3

\* Argument expressions as source tokens, each with the node it stands for.
ArgumentForms ==
    { [tokens |-> <<IntegerToken(1)>>, node |-> IntegerExpression(1)],
      [tokens |-> <<IntegerToken(2)>>, node |-> IntegerExpression(2)],
      [tokens |-> <<IdentifierToken("x")>>, node |-> VariableExpression(IdentifierToken("x"))],
      [tokens |-> <<IntegerToken(1), Token("Plus"), IntegerToken(2)>>,
       node |-> BinaryExpression([kind |-> "Plus", token |-> Token("Plus")],
                                 IntegerExpression(1), IntegerExpression(2))],
      [tokens |-> <<IdentifierToken("g"), Token("LeftParen"), Token("RightParen")>>,
       node |-> FunctionCallExpression(IdentifierToken("g"), <<>>)] }

RECURSIVE ArgumentLists(_)
ArgumentLists(n) ==
    IF n = 0 THEN {<<>>}
    ELSE {Append(arguments, form) : arguments \in ArgumentLists(n - 1), form \in ArgumentForms}

ArgumentListsUpTo(most) == UNION {ArgumentLists(n) : n \in 0..most}

\* The tokens of the arguments, separated by commas.
RECURSIVE CommaSeparated(_)
CommaSeparated(arguments) ==
    IF arguments = <<>> THEN <<>>
    ELSE IF Len(arguments) = 1 THEN arguments[1].tokens
    ELSE arguments[1].tokens \o <<Token("Comma")>> \o CommaSeparated(Tail(arguments))

\* f(a1, ..., an) or f(a1, ..., an,) closed by Eof.
CallTokens(arguments, trailing) ==
    <<IdentifierToken("f"), Token("LeftParen")>>
        \o CommaSeparated(arguments)
        \o (IF trailing THEN <<Token("Comma")>> ELSE <<>>)
        \o <<Token("RightParen"), Eof>>

CallInputs(most) ==
    {CallTokens(arguments, trailing) : arguments \in ArgumentListsUpTo(most),
                                       trailing \in BOOLEAN}

InitCall ==
    /\ parser \in {NewParser(tokens) : tokens \in CallInputs(MaxArguments)}
    /\ returned = NotCalled
    /\ ast = <<>>
    /\ driver = "parse"
    /\ solver = NewSolver
    /\ stack = <<>>
    /\ status = "ok"

\* The parser on call statements, with and without a trailing comma.
SpecCall == InitCall /\ [][NextParser]_vars

\* C13: a call whose argument list ends with one trailing comma before the
\* closing parenthesis is parsed into a complete call node whose arguments are
\* the expressions written before that comma, in order, with exactly one
\* diagnostic, and the cursor is left just after the closing parenthesis.
TrailingCommaCall ==
    (returned.called /\ parser.tokens[Len(parser.tokens) - 2].kind = "Comma") =>
        \A arguments \in ArgumentListsUpTo(MaxArguments) :
            (arguments # <<>> /\ parser.tokens = CallTokens(arguments, TRUE))
            => /\ Ok(parser)
               /\ ast = <<ExpressionStatement(
                            FunctionCallExpression(IdentifierToken("f"),
                                [i \in 1..Len(arguments) |-> arguments[i].node]))>>
               /\ Len(parser.diagnostics) = 1
               /\ parser.cursor = Len(parser.tokens) - 1

\* f(1,2,) has been parsed.
TrailingCommaWitness ==
    /\ parser.tokens = <<IdentifierToken("f"), Token("LeftParen"), IntegerToken(1), Token("Comma"),
                         IntegerToken(2), Token("Comma"), Token("RightParen"), Eof>>
    /\ returned.called
    /\ returned.value # None
    /\ Len(parser.diagnostics) = 1
    /\ parser.cursor = 7

\* ------------------------------------------------------------------ C14

\* The most tokens between the parentheses of a declaration.
MaxParameterTokens == 3

ParameterAlphabet ==
    {IdentifierToken("x"), IdentifierToken("y"), Token("Comma"), IntegerToken(1), Token("Plus")}

RECURSIVE ParameterTokens(_)
ParameterTokens(n) ==
    IF n = 0 THEN {<<>>}
    ELSE {Append(s, t) : s \in ParameterTokens(n - 1), t \in ParameterAlphabet}

\* func f ( ... ) { } closed by Eof.
DeclarationTokens(parameters) ==
    <<Token("Func"), IdentifierToken("f"), Token("LeftParen")>>
        \o parameters
        \o <<Token("RightParen"), Token("LeftBrace"), Token("RightBrace"), Eof>>

DeclarationInputs(most) ==
    {DeclarationTokens(parameters) : parameters \in UNION {ParameterTokens(n) : n \in 0..most}}

InitDeclaration ==
    /\ parser \in {NewParser(tokens) : tokens \in DeclarationInputs(MaxParameterTokens)}
    /\ returned = NotCalled
    /\ ast = <<>>
    /\ driver = "parse"
    /\ solver = NewSolver
    /\ stack = <<>>
    /\ status = "ok"

\* The parser on function declarations with well-formed and malformed
\* parameter lists.
SpecDeclaration == InitDeclaration /\ [][NextParser]_vars

\* What is written between the parentheses of the declaration.
WrittenParameters == SubSeq(parser.tokens, 4, Len(parser.tokens) - 4)

IsIdentifier(token) == token.kind = "Identifier"

IsNeitherIdentifierNorComma(token) == token.kind \notin {"Identifier", "Comma"}

\* C14: in a declaration's parameter list every offending token is reported and
\* skipped: the declaration is completed with the identifier parameters in
\* their written order, the cursor is past the whole declaration, and a
\* non-identifier token in the list has left a diagnostic.
MalformedParametersSkipped ==
    returned.called =>
        /\ Ok(parser)
        /\ Len(ast) = 1
        /\ ast[1].kind = "FunctionStatement"
        /\ ast[1].arguments =
               [i \in 1..Len(SelectSeq(WrittenParameters, IsIdentifier)) |->
                   [identifier |-> SelectSeq(WrittenParameters, IsIdentifier)[i]]]
        /\ parser.cursor = Len(parser.tokens) - 1
        /\ SelectSeq(WrittenParameters, IsNeitherIdentifierNorComma) # <<>>
               => parser.diagnostics # <<>>

\* ------------------------------------------------------------------ C15

\* C15: a function call evaluates every argument expression of the call, from
\* left to right, before the callee's scope is pushed: the step that enters the
\* body comes after the last argument of the call, whatever the number of
\* arguments and of parameters, and pushes exactly one scope.
AllArgumentsEvaluated ==
    [][( /\ AtExpression("FunctionCall") \/ At("visit_function_call_expression:arguments")
         /\ status' = "ok"
         /\ stack' # <<>>
         /\ stack'[Len(stack')].frame = "visit_function_call_expression:body" )
       => /\ IF AtExpression("FunctionCall")
             THEN Len(Top.expr.arguments) = 0
             ELSE Top.index = Len(Top.expr.arguments)
          /\ Len(solver'.scopes) = Len(solver.scopes) + 1]_vars

\* ------------------------------------------------------------------ C16

\* C16: visiting a Function declaration stores the declaration under its name
\* in the function table, replacing an earlier one, and binds the name to 0 in
\* the innermost scope only; the body is not executed, and every other table
\* entry, every other binding and the accumulator are left as they were.
FunctionDeclarationEffect ==
    [][AtStatement("FunctionStatement") =>
          LET name == Top.statement.identifier.literal
              innermost == Len(solver.scopes)
          IN /\ status' = "ok"
             /\ stack' = Rest
             /\ solver'.result = solver.result
             /\ DOMAIN solver'.functions = DOMAIN solver.functions \cup {name}
             /\ solver'.functions[name] = Top.statement
             /\ \A other \in DOMAIN solver.functions \ {name} :
                    solver'.functions[other] = solver.functions[other]
             /\ Len(solver'.scopes) = innermost
             /\ \A k \in 1..(innermost - 1) : solver'.scopes[k] = solver.scopes[k]
             /\ DOMAIN solver'.scopes[innermost] = DOMAIN solver.scopes[innermost] \cup {name}
             /\ solver'.scopes[innermost][name] = 0
             /\ \A other \in DOMAIN solver.scopes[innermost] \ {name} :
                    solver'.scopes[innermost][other] = solver.scopes[innermost][other]]_vars

\* Inside a call of outer, inner has been declared: it is in the function
\* table beside outer, and bound to 0 in the call's scope and not in the base
\* scope.
DeclaredInsideCallWitness ==
    /\ status = "ok"
    /\ Len(solver.scopes) = 2
    /\ {"inner", "outer"} \subseteq DOMAIN solver.functions
    /\ "inner" \in DOMAIN solver.scopes[2]
    /\ solver.scopes[2]["inner"] = 0
    /\ "inner" \notin DOMAIN solver.scopes[1]
    /\ "outer" \in DOMAIN solver.scopes[1]

\* ------------------------------------------------------------------ C17

\* C17: the function table is not scoped: no step removes a function from the
\* table, and the step that ends a call pops the call's scope, with the names
\* bound in it, and leaves the function table as it is.
FunctionTableNotScoped ==
    [][/\ \A name \in DOMAIN solver.functions : name \in DOMAIN solver'.functions
       /\ (At("visit_function_call_expression:body") /\ Top.index > Len(Top.func.body))
            => /\ solver'.functions = solver.functions
               /\ solver'.scopes = SubSeq(solver.scopes, 1, Len(solver.scopes) - 1)]_vars

\* inner, declared inside the body of outer, has been called from the top
\* level after outer returned: it yielded 3, and no scope binds its name.
InnerCalledFromTopLevelWitness ==
    /\ status = "ok"
    /\ ast = <<Do(Call("inner", <<>>))>>
    /\ stack = <<AstVisitFrame(2)>>
    /\ solver.result = Some(3 * Scale)
    /\ "inner" \in DOMAIN solver.functions
    /\ Len(solver.scopes) = 1
    /\ "inner" \notin DOMAIN solver.scopes[1]

====
